---- MODULE Spec2Model ----
(***************************************************************************)
(* Model of symbolic_algebra.py: the expression classes Var, Num and the   *)
(* five BinOp subclasses with their __str__, __eq__, eval, deriv and       *)
(* simplify methods, and the functions tokenize, parse and expression.     *)
(*                                                                         *)
(* Python values are records with a "type" field:                          *)
(*   numbers      [type |-> "int" / "float", num, den]  (exact, normalised)*)
(*   None         [type |-> "None"]                                        *)
(*   expressions  [type |-> "Num", n], [type |-> "Var", name],             *)
(*                [type |-> "Add" / "Sub" / "Mul" / "Div" / "Pow",         *)
(*                 left, right]                                            *)
(*   str / list   [type |-> "str" / "list", val |-> sequence]              *)
(*   a raised exception  [type |-> "Raise", kind |-> exception class]      *)
(* A str is a sequence of one-character strings.                           *)
(***************************************************************************)
EXTENDS Integers, Sequences, FiniteSets, TLC

VARIABLES pc, e, b, wrt, text, tokens, res

vars == <<pc, e, b, wrt, text, tokens, res>>

\* Bounds of the explored inputs.
MaxOps == 2
MaxToks == 4

(***************************************************************************)
(* Python numbers (int and float) and their arithmetic.                    *)
(***************************************************************************)
None == [type |-> "None"]

Raise(kind) == [type |-> "Raise", kind |-> kind]

IsRaise(v) == v.type = "Raise"

IsNone(v) == v.type = "None"

Abs(n) == IF n < 0 THEN -n ELSE n

RECURSIVE Gcd(_, _)
Gcd(p, q) == IF q = 0 THEN p ELSE Gcd(q, p % q)

\* the number p/q (q # 0) in lowest terms with a positive denominator
MkNum(ty, p, q) ==
    LET g == Gcd(Abs(p), Abs(q))
        s == IF q < 0 THEN -1 ELSE 1
    IN  [type |-> ty, num |-> (s * p) \div g, den |-> (s * q) \div g]

PyInt(n) == [type |-> "int", num |-> n, den |-> 1]

PyFloat(p, q) == MkNum("float", p, q)

\* float(x) for a number x
ToFloat(x) == [type |-> "float", num |-> x.num, den |-> x.den]

\* x == y on numbers: int and float compare by value
NumEq(x, y) == x.num = y.num /\ x.den = y.den

\* the type of the result of + - * on two numbers
ArithType(x, y) == IF x.type = "int" /\ y.type = "int" THEN "int" ELSE "float"

PyAdd(x, y) == MkNum(ArithType(x, y), x.num * y.den + y.num * x.den, x.den * y.den)

PySub(x, y) == MkNum(ArithType(x, y), x.num * y.den - y.num * x.den, x.den * y.den)

PyMul(x, y) == MkNum(ArithType(x, y), x.num * y.num, x.den * y.den)

\* x / y: true division, always a float; a zero divisor raises
PyTrueDiv(x, y) ==
    IF y.num = 0 THEN Raise("ZeroDivisionError")
    ELSE MkNum("float", x.num * y.den, x.den * y.num)

RECURSIVE IntPow(_, _)
IntPow(base, k) == IF k = 0 THEN 1 ELSE base * IntPow(base, k - 1)

\* x ** y.  An integral exponent is computed exactly; a zero base with a
\* negative exponent raises.  A fractional exponent is computed for the
\* bases 0 and 1 only; any other base gives a value outside the exact
\* numbers, reported as Raise("Unmodelled"), which no explored input reaches.
PyPow(x, y) ==
    IF y.den = 1
    THEN IF y.num >= 0
         THEN MkNum(ArithType(x, y), IntPow(x.num, y.num), IntPow(x.den, y.num))
         ELSE IF x.num = 0 THEN Raise("ZeroDivisionError")
              ELSE MkNum("float", IntPow(x.den, -y.num), IntPow(x.num, -y.num))
    ELSE IF x.num = 0
         THEN IF y.num > 0 THEN PyFloat(0, 1) ELSE Raise("ZeroDivisionError")
         ELSE IF NumEq(x, PyInt(1)) THEN PyFloat(1, 1)
              ELSE Raise("Unmodelled")

(***************************************************************************)
(* Expression classes.                                                     *)
(***************************************************************************)
BinOpTypes == {"Add", "Sub", "Mul", "Div", "Pow"}

Var(n) == [type |-> "Var", name |-> n]

Num(n) == [type |-> "Num", n |-> n]

\* BinOp.__init__ with operands that are already Symbols
BinOp(cls, left, right) == [type |-> cls, left |-> left, right |-> right]

Add(l, r) == BinOp("Add", l, r)

Sub(l, r) == BinOp("Sub", l, r)

Mul(l, r) == BinOp("Mul", l, r)

Div(l, r) == BinOp("Div", l, r)

Pow(l, r) == BinOp("Pow", l, r)

IsBinOp(x) == x.type \in BinOpTypes

\* class attribute opp, as a str
opp(cls) ==
    CASE cls = "Add" -> <<"+">>
      [] cls = "Sub" -> <<"-">>
      [] cls = "Mul" -> <<"*">>
      [] cls = "Div" -> <<"/">>
      [] cls = "Pow" -> <<"*", "*">>

precedence(x) ==
    CASE x.type \in {"Var", "Num"} -> 100
      [] x.type \in {"Add", "Sub"} -> 5
      [] x.type \in {"Mul", "Div", "Pow"} -> 10

right_parens(x) == x.type \in {"Sub", "Div"}

left_parens(x) == x.type = "Pow"

\* __eq__ of Var, Num and BinOp, dispatched on the left operand
RECURSIVE Eq(_, _)
Eq(x, y) ==
    CASE x.type = "Var" -> y.type = "Var" /\ x.name = y.name
      [] x.type = "Num" -> y.type = "Num" /\ NumEq(x.n, y.n)
      [] OTHER -> /\ x.type = y.type
                  /\ Eq(x.left, y.left)
                  /\ Eq(x.right, y.right)

(***************************************************************************)
(* __str__                                                                 *)
(***************************************************************************)
DigitChars == <<"0", "1", "2", "3", "4", "5", "6", "7", "8", "9">>

\* decimal digits of a natural number
RECURSIVE NatStr(_)
NatStr(n) ==
    IF n < 10 THEN <<DigitChars[n + 1]>>
    ELSE NatStr(n \div 10) \o <<DigitChars[(n % 10) + 1]>>

\* digits after the decimal point of rem/den, at most k of them
RECURSIVE FracStr(_, _, _)
FracStr(rem, den, k) ==
    IF rem = 0 \/ k = 0 THEN <<>>
    ELSE <<DigitChars[((rem * 10) \div den) + 1]>> \o FracStr((rem * 10) % den, den, k - 1)

\* str(n) of an int or a float n
PyNumStr(n) ==
    LET sign == IF n.num < 0 THEN <<"-">> ELSE <<>>
        whole == Abs(n.num) \div n.den
        rem == Abs(n.num) % n.den
    IN  IF n.type = "int" THEN sign \o NatStr(whole)
        ELSE IF rem = 0 THEN sign \o NatStr(whole) \o <<".", "0">>
        ELSE sign \o NatStr(whole) \o <<".">> \o FracStr(rem, n.den, 16)

\* Var.__str__: the name, a str
VarStr(x) == x.name

\* Num.__str__
NumStr(x) == PyNumStr(x.n)

Parens(s) == <<"(">> \o s \o <<")">>

\* BinOp.__str__, given the rendered operands
BinOpStr(x, ret_str_l, ret_str_r) ==
    LET ret_str_m == <<" ">> \o opp(x.type) \o <<" ">>
        l == IF \/ precedence(x.left) < precedence(x)
                \/ (precedence(x.left) <= precedence(x) /\ left_parens(x))
             THEN Parens(ret_str_l) ELSE ret_str_l
        r == IF precedence(x.right) < precedence(x) THEN Parens(ret_str_r)
             ELSE IF right_parens(x) /\ precedence(x.right) = precedence(x)
                  THEN Parens(ret_str_r) ELSE ret_str_r
    IN  l \o ret_str_m \o r

\* str(x) for any expression x
RECURSIVE Str(_)
Str(x) ==
    CASE x.type = "Var" -> VarStr(x)
      [] x.type = "Num" -> NumStr(x)
      [] OTHER -> BinOpStr(x, Str(x.left), Str(x.right))

(***************************************************************************)
(* eval                                                                    *)
(***************************************************************************)
\* Var.eval: assigments.get(self.name, None)
VarEval(x, assignments) ==
    IF x.name \in DOMAIN assignments THEN assignments[x.name] ELSE None

\* Num.eval: float(self.n)
NumEval(x) == ToFloat(x.n)

\* the operate method of each BinOp subclass
operate(cls, l_eval, r_eval) ==
    CASE cls = "Add" -> PyAdd(l_eval, r_eval)
      [] cls = "Sub" -> PySub(l_eval, r_eval)
      [] cls = "Mul" -> PyMul(l_eval, r_eval)
      [] cls = "Div" -> PyTrueDiv(l_eval, r_eval)
      [] cls = "Pow" -> PyPow(l_eval, r_eval)

\* BinOp.eval, given the outcomes of evaluating the operands: an exception
\* raised by the left operand, then by the right one, propagates
BinOpEval(cls, l_eval, r_eval) ==
    IF IsRaise(l_eval) THEN l_eval
    ELSE IF IsRaise(r_eval) THEN r_eval
    ELSE IF IsNone(l_eval) \/ IsNone(r_eval) THEN Raise("NameError")
    ELSE operate(cls, l_eval, r_eval)

\* x.eval(assignments): a number, None, or a raised exception
RECURSIVE Eval(_, _)
Eval(x, assignments) ==
    CASE x.type = "Var" -> VarEval(x, assignments)
      [] x.type = "Num" -> NumEval(x)
      [] OTHER -> BinOpEval(x.type, Eval(x.left, assignments), Eval(x.right, assignments))

(***************************************************************************)
(* deriv                                                                   *)
(***************************************************************************)
VarDeriv(x, w) == IF x.name = w THEN Num(PyInt(1)) ELSE Num(PyInt(0))

NumDeriv(x, w) == Num(PyInt(0))

\* Add.deriv, given the derivatives dl, dr of x.left, x.right (Symbol.__add__)
AddDeriv(x, dl, dr) == Add(dl, dr)

\* Sub.deriv (Symbol.__sub__)
SubDeriv(x, dl, dr) == Sub(dl, dr)

MulDeriv(x, dl, dr) == Add(Mul(x.left, dr), Mul(x.right, dl))

\* a quotient rule with the two products of the numerator exchanged
DivDerivSwapped(x, dl, dr) ==
    Div(Sub(Mul(x.left, dr), Mul(x.right, dl)), Mul(x.right, x.right))

DivDeriv(x, dl, dr) ==
    Div(Sub(Mul(x.right, dl), Mul(x.left, dr)), Mul(x.right, x.right))

\* Pow.deriv; self.right - 1 is Sub(self.right, 1), whose int operand
\* BinOp.__init__ wraps as Num(1)
PowDeriv(x, dl, dr) ==
    Mul(Mul(x.right, Pow(x.left, Sub(x.right, Num(PyInt(1))))), dl)

RECURSIVE Deriv(_, _)
Deriv(x, w) ==
    CASE x.type = "Var" -> VarDeriv(x, w)
      [] x.type = "Num" -> NumDeriv(x, w)
      [] x.type = "Add" -> AddDeriv(x, Deriv(x.left, w), Deriv(x.right, w))
      [] x.type = "Sub" -> SubDeriv(x, Deriv(x.left, w), Deriv(x.right, w))
      [] x.type = "Mul" -> MulDeriv(x, Deriv(x.left, w), Deriv(x.right, w))
      [] x.type = "Div" -> DivDeriv(x, Deriv(x.left, w), Deriv(x.right, w))
      [] x.type = "Pow" -> PowDeriv(x, Deriv(x.left, w), Deriv(x.right, w))

(***************************************************************************)
(* simplify                                                                *)
(***************************************************************************)
Zero == Num(PyInt(0))

One == Num(PyInt(1))

\* Num(v) where v is the outcome of an arithmetic operation: an exception
\* raised by the operation propagates
NumOf(v) == IF IsRaise(v) THEN v ELSE Num(v)

\* Add.simplify, given the simplified operands
AddSimplify(l_simpl, r_simpl) ==
    IF Eq(l_simpl, Zero) /\ Eq(r_simpl, Zero) THEN Zero
    ELSE IF Eq(l_simpl, Zero) THEN r_simpl
    ELSE IF Eq(r_simpl, Zero) THEN l_simpl
    ELSE IF l_simpl.type = "Num" /\ r_simpl.type = "Num"
         THEN NumOf(PyAdd(l_simpl.n, r_simpl.n))
    ELSE Add(l_simpl, r_simpl)

\* Sub.simplify
SubSimplify(l_simpl, r_simpl) ==
    IF Eq(l_simpl, Zero) /\ Eq(r_simpl, Zero) THEN Zero
    ELSE IF Eq(r_simpl, Zero) THEN l_simpl
    ELSE IF l_simpl.type = "Num" /\ r_simpl.type = "Num"
         THEN NumOf(PySub(l_simpl.n, r_simpl.n))
    ELSE Sub(l_simpl, r_simpl)

\* a Mul.simplify without the rule for a right operand of 1
MulSimplifyNoRightOne(l_simpl, r_simpl) ==
    IF Eq(l_simpl, Zero) \/ Eq(r_simpl, Zero) THEN Zero
    ELSE IF Eq(l_simpl, One) THEN r_simpl
    ELSE IF l_simpl.type = "Num" /\ r_simpl.type = "Num"
         THEN NumOf(PyMul(l_simpl.n, r_simpl.n))
    ELSE Mul(l_simpl, r_simpl)

\* Mul.simplify
MulSimplify(l_simpl, r_simpl) ==
    IF Eq(l_simpl, Zero) \/ Eq(r_simpl, Zero) THEN Zero
    ELSE IF Eq(l_simpl, One) THEN r_simpl
    ELSE IF Eq(r_simpl, One) THEN l_simpl
    ELSE IF l_simpl.type = "Num" /\ r_simpl.type = "Num"
         THEN NumOf(PyMul(l_simpl.n, r_simpl.n))
    ELSE Mul(l_simpl, r_simpl)

\* Div.simplify
DivSimplify(l_simpl, r_simpl) ==
    IF Eq(l_simpl, Zero) THEN Zero
    ELSE IF Eq(r_simpl, One) THEN l_simpl
    ELSE IF l_simpl.type = "Num" /\ r_simpl.type = "Num"
         THEN NumOf(PyTrueDiv(l_simpl.n, r_simpl.n))
    ELSE Div(l_simpl, r_simpl)

\* a Pow.simplify with one more rule, which expands a square into a product
PowSimplifyExpandSquare(l_simpl, r_simpl) ==
    IF Eq(r_simpl, Zero) THEN One
    ELSE IF Eq(r_simpl, One) THEN l_simpl
    ELSE IF /\ Eq(l_simpl, Zero)
            /\ \/ r_simpl.type = "Var"
               \/ (r_simpl.type = "Num" /\ r_simpl.n.num > 0)
         THEN Zero
    ELSE IF l_simpl.type = "Num" /\ r_simpl.type = "Num"
         THEN NumOf(PyPow(l_simpl.n, r_simpl.n))
    ELSE IF Eq(r_simpl, Num(PyInt(2))) THEN Mul(l_simpl, l_simpl)
    ELSE Pow(l_simpl, r_simpl)

\* Pow.simplify
PowSimplify(l_simpl, r_simpl) ==
    IF Eq(r_simpl, Zero) THEN One
    ELSE IF Eq(r_simpl, One) THEN l_simpl
    ELSE IF /\ Eq(l_simpl, Zero)
            /\ \/ r_simpl.type = "Var"
               \/ (r_simpl.type = "Num" /\ r_simpl.n.num > 0)
         THEN Zero
    ELSE IF l_simpl.type = "Num" /\ r_simpl.type = "Num"
         THEN NumOf(PyPow(l_simpl.n, r_simpl.n))
    ELSE Pow(l_simpl, r_simpl)

\* the first two statements of every BinOp simplify: an exception raised
\* while simplifying the left operand, then the right one, propagates
BinOpSimplify(cls, l_simpl, r_simpl) ==
    IF IsRaise(l_simpl) THEN l_simpl
    ELSE IF IsRaise(r_simpl) THEN r_simpl
    ELSE CASE cls = "Add" -> AddSimplify(l_simpl, r_simpl)
           [] cls = "Sub" -> SubSimplify(l_simpl, r_simpl)
           [] cls = "Mul" -> MulSimplify(l_simpl, r_simpl)
           [] cls = "Div" -> DivSimplify(l_simpl, r_simpl)
           [] cls = "Pow" -> PowSimplify(l_simpl, r_simpl)

\* x.simplify(): an expression, or a raised exception; Symbol.simplify
\* returns a leaf unchanged
RECURSIVE Simplify(_)
Simplify(x) ==
    IF IsBinOp(x) THEN BinOpSimplify(x.type, Simplify(x.left), Simplify(x.right))
    ELSE x

(***************************************************************************)
(* tokenize, parse, expression                                             *)
(***************************************************************************)
Digits == {"0", "1", "2", "3", "4", "5", "6", "7", "8", "9"}

Letters == {"a", "b", "c", "d", "e", "f", "g", "h", "i", "j", "k", "l", "m",
            "n", "o", "p", "q", "r", "s", "t", "u", "v", "w", "x", "y", "z"}

List(s) == [type |-> "list", val |-> s]

\* the characters of a seq with the last one removed
ButLast(s) == SubSeq(s, 1, Len(s) - 1)

\* case(tokenized): pop the sentinel, then pop a leading empty token
case(tokenized) ==
    IF tokenized = <<>> THEN Raise("IndexError")
    ELSE LET popped == ButLast(tokenized)
         IN  IF popped = <<>> THEN Raise("IndexError")
             ELSE IF popped[1] = <<>> THEN List(Tail(popped))
             ELSE List(popped)

\* the loop of tokenize from the character at 0-based index i on;
\* the characters are those of inp_str followed by the sentinel "|"
RECURSIVE TokenizeLoop(_, _, _, _)
TokenizeLoop(inp_str, i, tokenized, num_add) ==
    IF i > Len(inp_str) THEN case(tokenized)
    ELSE LET char == IF i < Len(inp_str) THEN inp_str[i + 1] ELSE "|"
         IN  IF char = " " \/ char = ")"
             THEN TokenizeLoop(inp_str, i + 1, tokenized, num_add)
             ELSE IF char \in Digits \/ char = "."
             THEN TokenizeLoop(inp_str, i + 1, tokenized, Append(num_add, char))
             ELSE IF char = "-" /\ i + 1 >= Len(inp_str)
             THEN Raise("IndexError")
             ELSE IF char = "-" /\ (inp_str[i + 2] \in Digits \/ inp_str[i + 2] = ".")
             THEN TokenizeLoop(inp_str, i + 1, tokenized, Append(num_add, char))
             ELSE TokenizeLoop(inp_str, i + 1,
                               (IF num_add # <<>> THEN Append(tokenized, num_add)
                                ELSE tokenized) \o <<<<char>>>>,
                               <<>>)

\* tokenize(inp_str): a list of tokens (each a str), or a raised exception
tokenize(inp_str) == TokenizeLoop(inp_str, 0, <<>>, <<>>)

RECURSIVE DigitsValue(_)
DigitsValue(s) ==
    IF s = <<>> THEN 0
    ELSE 10 * DigitsValue(ButLast(s))
         + (CHOOSE d \in 0..9 : DigitChars[d + 1] = s[Len(s)])

\* float(token) for a token made of the characters tokenize collects into a
\* number (digits, "." and "-"); a token with any other character is
\* outside the model
PyFloatOf(token) ==
    LET neg == token # <<>> /\ token[1] = "-"
        body == IF neg THEN Tail(token) ELSE token
        dots == {k \in 1..Len(body) : body[k] = "."}
        dot == CHOOSE k \in dots : TRUE
        digs == SelectSeq(body, LAMBDA c : c \in Digits)
    IN  IF \E k \in 1..Len(token) : token[k] \notin Digits \cup {".", "-"}
        THEN Raise("Unmodelled")
        ELSE IF \/ digs = <<>>
                \/ Cardinality(dots) > 1
                \/ \E k \in 1..Len(body) : body[k] = "-"
        THEN Raise("ValueError")
        ELSE PyFloat((IF neg THEN -1 ELSE 1) * DigitsValue(digs),
                     IntPow(10, IF dots = {} THEN 0 ELSE Len(body) - dot))

\* token.isalpha()
isalpha(token) == token # <<>> /\ \A k \in 1..Len(token) : token[k] \in Letters

\* symbol_dict_class[operator]: the class name, or KeyError
symbol_dict_class(operator) ==
    IF \E cls \in BinOpTypes : opp(cls) = operator
    THEN CHOOSE cls \in BinOpTypes : opp(cls) = operator
    ELSE "KeyError"

ExpIdx(x, i) == [type |-> "tuple", exp |-> x, idx |-> i]

\* parse_expression(index) inside parse(tokens), index 0-based: the tuple
\* (expression, next index), None when no branch returns, or a raised
\* exception
RECURSIVE parse_expression(_, _)
parse_expression(toks, index) ==
    IF index >= Len(toks) THEN Raise("IndexError")
    ELSE LET token == toks[index + 1]
         IN  IF token = <<>> THEN Raise("IndexError")
             ELSE IF token[1] = "-" \/ token[1] \in Digits \/ token[1] = "."
             THEN LET v == PyFloatOf(token)
                  IN  IF IsRaise(v) THEN v ELSE ExpIdx(Num(v), index + 1)
             ELSE IF isalpha(token) THEN ExpIdx(Var(token), index + 1)
             ELSE IF token = <<"(">>
             THEN LET l == parse_expression(toks, index + 1)
                  IN  IF IsRaise(l) THEN l
                      ELSE IF IsNone(l) THEN Raise("TypeError")
                      ELSE IF l.idx >= Len(toks) THEN Raise("IndexError")
                      ELSE LET operator == toks[l.idx + 1]
                               r == parse_expression(toks, l.idx + 1)
                           IN  IF IsRaise(r) THEN r
                               ELSE IF IsNone(r) THEN Raise("TypeError")
                               ELSE IF symbol_dict_class(operator) = "KeyError"
                               THEN Raise("KeyError")
                               ELSE ExpIdx(BinOp(symbol_dict_class(operator), l.exp, r.exp),
                                           r.idx)
             ELSE None

\* parse(tokens): the parsed expression, or a raised exception
parse(toks) ==
    LET r == parse_expression(toks, 0)
    IN  IF IsRaise(r) THEN r
        ELSE IF IsNone(r) THEN Raise("TypeError")
        ELSE r.exp

\* the loop of expression from the token at 0-based index i on: two
\* adjacent "*" tokens become one "**" token; index -1 is the last token
RECURSIVE FuseLoop(_, _, _)
FuseLoop(tokenized_lst, i, new_tok_list) ==
    IF i >= Len(tokenized_lst) THEN List(new_tok_list)
    ELSE LET token == tokenized_lst[i + 1]
             prev == IF i = 0 THEN tokenized_lst[Len(tokenized_lst)]
                     ELSE tokenized_lst[i]
         IN  IF token = <<"*">> /\ i + 1 >= Len(tokenized_lst)
             THEN Raise("IndexError")
             ELSE IF token = <<"*">> /\ tokenized_lst[i + 2] = <<"*">>
             THEN FuseLoop(tokenized_lst, i + 1, new_tok_list)
             ELSE IF token = <<"*">> /\ prev = <<"*">>
             THEN FuseLoop(tokenized_lst, i + 1, Append(new_tok_list, <<"*", "*">>))
             ELSE FuseLoop(tokenized_lst, i + 1, Append(new_tok_list, token))

\* expression(expression_str)
expression(expression_str) ==
    LET tokenized_lst == tokenize(expression_str)
    IN  IF IsRaise(tokenized_lst) THEN tokenized_lst
        ELSE LET fused == FuseLoop(tokenized_lst.val, 0, <<>>)
             IN  IF IsRaise(fused) THEN fused ELSE parse(fused.val)

(***************************************************************************)
(* The explored inputs.                                                    *)
(***************************************************************************)
x == <<"x">>

y == <<"y">>

Leaves == {Num(PyInt(-1)), Num(PyInt(0)), Num(PyInt(1)), Num(PyInt(2)), Var(x), Var(y)}

\* the expressions with exactly k operators over Leaves
RECURSIVE TreesWith(_)
TreesWith(k) ==
    IF k = 0 THEN Leaves
    ELSE UNION {{BinOp(cls, l, r) : l \in TreesWith(j), r \in TreesWith(k - 1 - j)} :
                <<cls, j>> \in BinOpTypes \X (0..(k - 1))}

\* every operator of the expression is +, - or *
RECURSIVE RingOnly(_)
RingOnly(t) ==
    IsBinOp(t) => t.type \in {"Add", "Sub", "Mul"} /\ RingOnly(t.left) /\ RingOnly(t.right)

\* every exponent is built with + - * only, so that it is integral for
\* integral leaves and bindings and every power is an exact number
RECURSIVE ExactExponents(_)
ExactExponents(t) ==
    IsBinOp(t) => /\ ExactExponents(t.left)
                  /\ ExactExponents(t.right)
                  /\ (t.type = "Pow" => RingOnly(t.right))

\* the number of operators of an expression
RECURSIVE Ops(_)
Ops(t) == IF IsBinOp(t) THEN 1 + Ops(t.left) + Ops(t.right) ELSE 0

\* the other operand of an operator applied to the current expression:
\* every expression with at most MaxOps operators is built from a leaf by
\* combining it with operands of at most (MaxOps - 1) \div 2 operators
Operands == UNION {TreesWith(k) : k \in 0..((MaxOps - 1) \div 2)}

\* binding environments: each of x, y unbound or bound to an integral float
BindValues == {PyFloat(v, 1) : v \in {-1, 0, 1}}

Bindings == UNION {[D -> BindValues] : D \in SUBSET {x, y}}

WrtNames == {x, y}

\* the strings given to tokenize and expression
Scenario1 == <<"(", "2", " ", "*", " ", "(", "3", " ", "+", " ", "4", ")", ")">>

Scenario4 == <<"(", "x", " ", "/", " ", "y", ")">>

Scenario6 == <<"(", "2", " ", "*", " ", "(", "5", " ", "+", " ", "3", ")", " ",
               "*", "*", " ", "1", ")">>

MainDemo == <<"2", " ", "*", " ", "(", "5", " ", "+", " ", "3", ")", " ",
              "*", "*", "1">>

Texts == {Scenario1, Scenario4, Scenario6, MainDemo, <<>>, <<"2", " ", "-">>,
          <<"x", " ", "*">>, <<"(", "-", "1", ".", "5", " ", "-", " ", "x", ")">>}

\* the tokens of the token lists given to parse
TokenAlphabet == {<<"(">>, <<"2">>, <<"x">>, <<"+">>, <<"*", "*">>, <<"-">>}

RECURSIVE ListsOf(_, _)
ListsOf(S, n) ==
    IF n = 0 THEN {<<>>}
    ELSE ListsOf(S, n - 1) \cup {Append(s, t) : s \in {u \in ListsOf(S, n - 1) : Len(u) = n - 1}, t \in S}

TokenLists == ListsOf(TokenAlphabet, MaxToks)

(***************************************************************************)
(* Specifications: one call of an operation on an input.                   *)
(***************************************************************************)
Init ==
    /\ pc = "ready"
    /\ e \in Leaves
    /\ b = <<>>
    /\ wrt = <<>>
    /\ text = <<>>
    /\ tokens = <<>>
    /\ res = None

\* e <op> t and t <op> e: the operators of Symbol (__add__ ... __rpow__)
\* build a larger expression
Build ==
    /\ pc = "ready"
    /\ Ops(e) < MaxOps
    /\ \E cls \in BinOpTypes, t \in Operands :
          \E n \in {BinOp(cls, e, t), BinOp(cls, t, e)} :
             /\ Ops(n) <= MaxOps
             /\ ExactExponents(n)
             /\ e' = n
    /\ UNCHANGED <<pc, b, wrt, text, tokens, res>>

\* str(e)
Render ==
    /\ pc = "ready"
    /\ pc' = "str"
    /\ res' = [type |-> "str", val |-> Str(e)]
    /\ UNCHANGED <<e, b, wrt, text, tokens>>

\* e.deriv(w)
Differentiate ==
    /\ pc = "ready"
    /\ \E w \in WrtNames :
          /\ wrt' = w
          /\ res' = Deriv(e, w)
    /\ pc' = "deriv"
    /\ UNCHANGED <<e, b, text, tokens>>

\* e.simplify()
SimplifyCall ==
    /\ pc = "ready"
    /\ pc' = "simplify"
    /\ res' = Simplify(e)
    /\ UNCHANGED <<e, b, wrt, text, tokens>>

Next == Build \/ Render \/ Differentiate \/ SimplifyCall

Spec == Init /\ [][Next]_vars

\* e.eval(a)
Evaluate ==
    /\ pc = "ready"
    /\ \E a \in Bindings :
          /\ b' = a
          /\ res' = Eval(e, a)
    /\ pc' = "eval"
    /\ UNCHANGED <<e, wrt, text, tokens>>

\* e.simplify().eval(a)
EvaluateSimplified ==
    /\ pc = "ready"
    /\ \E a \in Bindings :
          /\ b' = a
          /\ res' = LET s == Simplify(e) IN IF IsRaise(s) THEN s ELSE Eval(s, a)
    /\ pc' = "simplify_eval"
    /\ UNCHANGED <<e, wrt, text, tokens>>

NextEval == Build \/ Evaluate \/ EvaluateSimplified

EvalSpec == Init /\ [][NextEval]_vars

InitParse ==
    /\ b = <<>>
    /\ wrt = <<>>
    /\ res = None
    /\ \/ pc = "ready" /\ e \in Leaves /\ text = <<>> /\ tokens = <<>>
       \/ pc = "text" /\ e = None /\ text \in Texts /\ tokens = <<>>
       \/ pc = "tokens" /\ e = None /\ text = <<>> /\ tokens \in TokenLists

\* expression(str(e))
RoundTrip ==
    /\ pc = "ready"
    /\ pc' = "roundtrip"
    /\ text' = Str(e)
    /\ res' = expression(Str(e))
    /\ UNCHANGED <<e, b, wrt, tokens>>

\* tokenize(text)
TokenizeCall ==
    /\ pc = "text"
    /\ pc' = "tokenize"
    /\ res' = tokenize(text)
    /\ UNCHANGED <<e, b, wrt, text, tokens>>

\* expression(text)
ExpressionCall ==
    /\ pc = "text"
    /\ pc' = "expression"
    /\ res' = expression(text)
    /\ UNCHANGED <<e, b, wrt, text, tokens>>

\* parse(tokens)
ParseCall ==
    /\ pc = "tokens"
    /\ pc' = "parse"
    /\ res' = parse(tokens)
    /\ UNCHANGED <<e, b, wrt, text, tokens>>

NextParse == Build \/ RoundTrip \/ TokenizeCall \/ ExpressionCall \/ ParseCall

ParseSpec == InitParse /\ [][NextParse]_vars

\* no explored input leaves the exact numbers
AllModelled == ~(IsRaise(res) /\ res.kind = "Unmodelled")

(***************************************************************************)
(* Properties.                                                             *)
(***************************************************************************)
\* the names of the variables of an expression
RECURSIVE VarsOf(_)
VarsOf(t) ==
    CASE t.type = "Var" -> {t.name}
      [] t.type = "Num" -> {}
      [] OTHER -> VarsOf(t.left) \cup VarsOf(t.right)

\* the number of nodes of an expression
RECURSIVE Size(_)
Size(t) == IF IsBinOp(t) THEN 1 + Size(t.left) + Size(t.right) ELSE 1

\* two outcomes of eval are the same value or the same exception
SameOutcome(v, w) ==
    \/ IsRaise(v) /\ IsRaise(w) /\ v.kind = w.kind
    \/ /\ v.type \in {"int", "float"}
       /\ w.type \in {"int", "float"}
       /\ NumEq(v, w)

\* C1: parsing the rendered string of an expression gives back an
\* expression structurally equal to it.
RoundTripReturnsEqualTree ==
    pc = "roundtrip" => (~IsRaise(res) /\ Eq(res, e))

\* C2: evaluating an expression with a variable that the bindings lack
\* ends in the unbound-variable error (NameError), never in a value.
UnboundVariableRaisesNameError ==
    (pc = "eval" /\ ~(VarsOf(e) \subseteq DOMAIN b)) =>
        (IsRaise(res) /\ res.kind = "NameError")

\* C3: str, deriv and simplify return a result for every expression and
\* never raise.
RenderDerivSimplifyNeverRaise ==
    pc \in {"str", "deriv", "simplify"} => ~IsRaise(res)

\* C4: evaluating an expression all of whose variables are bound returns a
\* number and never raises.
EvalOfBoundExpressionReturnsNumber ==
    (pc = "eval" /\ VarsOf(e) \subseteq DOMAIN b) => res.type = "float"

\* C5: with every variable bound, the simplified expression evaluates to
\* the same value, or the same error, as the expression itself.
SimplifyKeepsValue ==
    (pc = "simplify_eval" /\ VarsOf(e) \subseteq DOMAIN b) =>
        SameOutcome(res, Eval(e, b))

Scenario6Tree ==
    Mul(Num(PyInt(2)), Pow(Add(Num(PyInt(5)), Num(PyInt(3))), Num(PyInt(1))))

\* C6: expression("(2 * (5 + 3) ** 1)") returns
\* Mul(Num(2), Pow(Add(Num(5), Num(3)), Num(1))).
Scenario6ParsesToMulOfPow ==
    (pc = "expression" /\ text = Scenario6) =>
        (~IsRaise(res) /\ Eq(res, Scenario6Tree))

\* the grammar expr := NUMBER | VARNAME | "(" expr OPERATOR expr over a
\* token list: the 0-based index after the expression that starts at index
\* i, or -1 when none starts there
RECURSIVE GrammarEnd(_, _)
GrammarEnd(toks, i) ==
    IF i < 0 \/ i >= Len(toks) THEN -1
    ELSE LET token == toks[i + 1]
         IN  IF /\ token # <<>>
                /\ \A k \in 1..Len(token) : token[k] \in Digits \cup {".", "-"}
                /\ ~IsRaise(PyFloatOf(token))
             THEN i + 1
             ELSE IF isalpha(token) THEN i + 1
             ELSE IF token = <<"(">>
             THEN LET j == GrammarEnd(toks, i + 1)
                  IN  IF j < 0 \/ j >= Len(toks) THEN -1
                      ELSE IF toks[j + 1] \notin {opp(cls) : cls \in BinOpTypes} THEN -1
                      ELSE GrammarEnd(toks, j + 1)
             ELSE -1

MatchesGrammar(toks) == GrammarEnd(toks, 0) = Len(toks)

\* C7: parse raises, instead of returning an expression, for every token
\* list that is not exactly one expression of the grammar: tokens missing,
\* an unknown operator, or tokens left over after the expression.
ParseRaisesOutsideGrammar ==
    (pc = "parse" /\ ~MatchesGrammar(tokens)) => IsRaise(res)

\* C8: when simplify returns, its result has at most as many nodes as the
\* expression.
SimplifySizeNonIncreasing ==
    (pc = "simplify" /\ ~IsRaise(res)) => Size(res) <= Size(e)

\* a simplification that folds part of the expression and keeps an operator
SimplifyShrinksToOperator ==
    pc = "simplify" /\ ~IsRaise(res) /\ IsBinOp(res) /\ Size(res) < Size(e)

RECURSIVE RuleDeriv(_, _)
RuleDeriv(t, w) ==
    LET l == t.left
        r == t.right
    IN  CASE t.type = "Num" -> Zero
          [] t.type = "Var" -> IF t.name = w THEN One ELSE Zero
          [] t.type = "Add" -> Add(RuleDeriv(l, w), RuleDeriv(r, w))
          [] t.type = "Sub" -> Sub(RuleDeriv(l, w), RuleDeriv(r, w))
          [] t.type = "Mul" -> Add(Mul(l, RuleDeriv(r, w)), Mul(r, RuleDeriv(l, w)))
          [] t.type = "Div" -> Div(Sub(Mul(r, RuleDeriv(l, w)), Mul(l, RuleDeriv(r, w))),
                                   Mul(r, r))
          [] t.type = "Pow" -> Mul(Mul(r, Pow(l, Sub(r, One))), RuleDeriv(l, w))

\* C10: e.deriv(wrt) is structurally equal to the expression the rules of
\* differentiation give, applied recursively and without simplification.
DerivFollowsRules ==
    pc = "deriv" => Eq(res, RuleDeriv(e, wrt))

\* the derivative of a quotient whose operands both contain the variable
DerivOfQuotientInWrt ==
    /\ pc = "deriv"
    /\ e.type = "Div"
    /\ wrt \in VarsOf(e.left)
    /\ wrt \in VarsOf(e.right)
    /\ IsBinOp(e.right)

====
